---- MODULE Spec2Model ----
(***************************************************************************)
(* The Spirit of the Lehua Tree: the narrative engine of                   *)
(* server/src/adventure_game.py (class TextAdventureGame).                 *)
(*                                                                         *)
(* The state is the game object's fields, run_game's locals and the        *)
(* locals of the choice resolution, plus the position of the single        *)
(* thread of control (pc).  The handlers block on input() and on the       *)
(* classification request, so a handler is cut into steps exactly at       *)
(* those suspension points; everything a handler does between two of them  *)
(* is one action.                                                          *)
(***************************************************************************)
EXTENDS Integers, Sequences, FiniteSets, TLC

\* ---------------------------------------------------------------- bounds
\* Play-throughs counted by the history counter runs (it saturates here).
MaxRuns == 2
\* Largest index the drive-loop harness may find recorded in choices_made.
MaxRecorded == 4

\* ------------------------------------------------------------ enumerations
\* SceneType (the enum's values; visited_locations and choices_made are keyed
\* by scene.value).
SceneType ==
    {"intro", "scene_1", "scene_1_more_info", "scene_2_ridge", "scene_2_lava",
     "scene_3", "scene_3_negotiate", "final_scene_restore",
     "final_scene_shatter", "final_scene_negotiate", "end"}

\* An identifier that is not a member of SceneType (only the drive-loop
\* harness ever starts from it).
NotAScene == "not_a_scene"

\* ChoiceCategory
ChoiceCategory == {"path", "answer", "action", "negotiation", "play_again"}

\* EndingType
EndingType == {"Restoration", "Sacrifice", "Harmony", "Unknown"}

\* The scenes whose handler calls get_user_choice.
DecisionScenes ==
    {"scene_1", "scene_1_more_info", "scene_2_ridge", "scene_2_lava",
     "scene_3", "scene_3_negotiate"}

FinalScenes ==
    {"final_scene_restore", "final_scene_shatter", "final_scene_negotiate"}

\* The identifiers run_game's if/elif chain has a branch for.
Dispatched ==
    {"intro", "scene_1", "scene_1_more_info", "scene_2_ridge", "scene_2_lava",
     "scene_3", "scene_3_negotiate", "final_scene_restore",
     "final_scene_shatter", "final_scene_negotiate", "end"}

\* len(options) of the option list each caller of get_user_choice builds.
NumOptions(scene) ==
    CASE scene = "scene_1"           -> 3
      [] scene = "scene_1_more_info" -> 2
      [] scene = "scene_2_ridge"     -> 3
      [] scene = "scene_2_lava"      -> 3
      [] scene = "scene_3"           -> 3
      [] scene = "scene_3_negotiate" -> 3
      [] scene = "end"               -> 2
      [] OTHER                       -> 0

\* The category each caller passes to get_user_choice.
Category(scene) ==
    CASE scene = "scene_1"           -> "path"
      [] scene = "scene_1_more_info" -> "path"
      [] scene = "scene_2_ridge"     -> "answer"
      [] scene = "scene_2_lava"      -> "answer"
      [] scene = "scene_3"           -> "action"
      [] scene = "scene_3_negotiate" -> "negotiation"
      [] scene = "end"               -> "play_again"
      [] OTHER                       -> "none"

\* ------------------------------------------------------------ text helpers
\* A line of text is a sequence of one-character strings.
Digits == {"0", "1", "2", "3", "4", "5", "6", "7", "8", "9"}

\* Characters for which str.isdigit() is true but int() raises ValueError
\* (superscript digits and the like).
OddDigits == {"^2"}

Whitespace == {" "}

DigitValue(c) ==
    CASE c = "0" -> 0 [] c = "1" -> 1 [] c = "2" -> 2 [] c = "3" -> 3
      [] c = "4" -> 4 [] c = "5" -> 5 [] c = "6" -> 6 [] c = "7" -> 7
      [] c = "8" -> 8 [] c = "9" -> 9

\* int() raising ValueError.
ValueError == [ok |-> FALSE, val |-> 0]

IntValue(n) == [ok |-> TRUE, val |-> n]

RECURSIVE LStrip(_)
LStrip(s) ==
    IF s # <<>> /\ Head(s) \in Whitespace THEN LStrip(Tail(s)) ELSE s

RECURSIVE RStrip(_)
RStrip(s) ==
    IF s # <<>> /\ s[Len(s)] \in Whitespace
    THEN RStrip(SubSeq(s, 1, Len(s) - 1))
    ELSE s

\* str.strip()
Strip(s) == RStrip(LStrip(s))

RECURSIVE DecimalValue(_)
DecimalValue(s) ==
    IF s = <<>> THEN 0
    ELSE 10 * DecimalValue(SubSeq(s, 1, Len(s) - 1)) + DigitValue(s[Len(s)])

AllDecimal(s) == s # <<>> /\ \A i \in 1..Len(s) : s[i] \in Digits

\* int(text): surrounding whitespace is ignored, one sign is allowed, the rest
\* must be decimal digits; anything else raises ValueError.  The result is
\* IntValue(n) or ValueError.
ParseInt(text) ==
    LET s == Strip(text) IN
    IF s = <<>> THEN ValueError
    ELSE IF Head(s) = "-"
         THEN IF AllDecimal(Tail(s))
              THEN IntValue(0 - DecimalValue(Tail(s))) ELSE ValueError
    ELSE IF Head(s) = "+"
         THEN IF AllDecimal(Tail(s))
              THEN IntValue(DecimalValue(Tail(s))) ELSE ValueError
    ELSE IF AllDecimal(s) THEN IntValue(DecimalValue(s)) ELSE ValueError

\* str.isdigit(): non-empty and every character is a digit character.
IsDigit(word) ==
    word # <<>> /\ \A i \in 1..Len(word) : word[i] \in Digits \cup OddDigits

\* str.split(): the maximal runs of non-whitespace characters, in order.
RECURSIVE SplitFrom(_, _)
SplitFrom(s, word) ==
    IF s = <<>> THEN (IF word = <<>> THEN <<>> ELSE <<word>>)
    ELSE IF Head(s) \in Whitespace
         THEN (IF word = <<>> THEN <<>> ELSE <<word>>) \o SplitFrom(Tail(s), <<>>)
         ELSE SplitFrom(Tail(s), Append(word, Head(s)))

Split(s) == SplitFrom(s, <<>>)

\* -------------------------------------------------------------- the inputs
\* Lines the player may type at a prompt.
Inputs ==
    {<<"0">>, <<"1">>, <<"2">>, <<"3">>, <<"4">>, <<" ", "2">>, <<"-", "1">>,
     <<"g", "o">>, <<>>}

\* What a classification request may come back with: a message content, a
\* message whose content is None, or an exception (no network, timeout, ...).
Contents ==
    {<<"1">>, <<"2">>, <<"3">>, <<"4", " ", "2">>, <<"3", " ", "1">>,
     <<"n", "o">>, <<"2", ".">>, <<"^2">>, <<"^2", " ", "2">>, <<>>}

LlmOutcomes ==
    {[kind |-> "content", text |-> c] : c \in Contents}
        \cup {[kind |-> "none", text |-> <<>>], [kind |-> "error", text |-> <<>>]}

NoOutcome == [kind |-> "unset", text |-> <<>>]

NoInput == <<"unset">>

\* ---------------------------------------------------------------- the state
VARIABLES
    pc,                 \* where the thread of control is (see the actions)
    play_again,         \* run_game's local
    current_scene,      \* run_game's local: the scene being, or to be, executed
    visited_locations,  \* game_state["visited_locations"]
    choices_made,       \* game_state["choices_made"]: scene.value -> index
    game_over,          \* game_state["game_over"]
    story_progress,     \* self.story_progress
    use_llm,            \* self.use_llm
    api_key,            \* whether OPENAI_API_KEY is set in the environment
    user_input,         \* the last line input() returned to the resolution
    response,           \* the outcome of the last classification request
    llm_calls,          \* classification requests made by the current call of
                        \* get_user_choice
    last_choice,        \* what the last call of get_user_choice returned, and to whom
    summary,            \* the journey summary on the screen, if any
    notices,            \* the error notices on the screen
    runs,               \* play-throughs begun so far (saturates at MaxRuns)
    scenes_run,         \* the scene handlers that have returned in this
                        \* play-through, in order
    picks               \* the indices get_user_choice has returned to the
                        \* scenes of this play-through, in order

session == <<visited_locations, choices_made, story_progress, game_over>>

vars ==
    <<pc, play_again, current_scene, visited_locations, choices_made, game_over,
      story_progress, use_llm, api_key, user_input, response, llm_calls,
      last_choice, summary, notices, runs, scenes_run, picks>>

history == <<scenes_run, picks>>

EmptyChoices == [s \in {} |-> 0]

NoChoice == [scene |-> "none", category |-> "none", index |-> 0]

NoSummary == [shown |-> FALSE, visited |-> 0, choices |-> 0, ending |-> "Unknown"]

\* ------------------------------------------------------- choice resolution
\* Variant: the upper end of the range is one too far.
LlmInRange_Loose(n, N) == 1 <= n /\ n <= N + 1

\* The range test of process_user_input_with_llm.
LlmInRange(n, N) == 1 <= n /\ n <= N

\* Variant: the range test taken for a 0-based index.
NumberInRange_ZeroBased(n, N) == 0 <= n /\ n < N

\* The range test of get_numbered_choice.
NumberInRange(n, N) == 1 <= n /\ n <= N

\* Variant: the second option is the default.
DefaultOption_Second == 1 + 1

\* What process_user_input_with_llm returns when no word of the response is a
\* number in range.
DefaultOption == 1

Return(n) == [kind |-> "return", val |-> n]

Raise == [kind |-> "raise", val |-> 0]

\* The loop over the words of the response: the first word that is all digits
\* and in range is returned; a word that is all digits but that int() rejects
\* raises; with no such word the default is returned.
RECURSIVE ScanWords(_, _)
ScanWords(words, N) ==
    IF words = <<>> THEN Return(DefaultOption)
    ELSE LET word == Head(words) IN
         IF IsDigit(word)
         THEN LET n == ParseInt(word) IN
              IF ~n.ok THEN Raise
              ELSE IF LlmInRange(n.val, N) THEN Return(n.val)
              ELSE ScanWords(Tail(words), N)
         ELSE ScanWords(Tail(words), N)

\* The try block of process_user_input_with_llm, given what the request came
\* back with: Return(n), or Raise when control reaches the except clause (the
\* request raised, content was None so .strip() raised, or int() raised).
TryLlm(outcome, N) ==
    IF outcome.kind = "content" THEN ScanWords(Split(Strip(outcome.text)), N)
    ELSE Raise

\* One pass of get_numbered_choice's loop over the line read: Return(n) or,
\* when the loop goes round again, Raise.
TryNumber(line, N) ==
    LET n == ParseInt(line) IN
    IF n.ok /\ NumberInRange(n.val, N) THEN Return(n.val) ELSE Raise

\* ---------------------------------------------------------- the scene graph
\* Variant: scene_3's default edge names a scene no handler exists for.
NextScene_Dangling(scene, choice) ==
    CASE scene = "intro" -> "scene_1"
      [] scene = "scene_1" ->
            IF choice = 1 THEN "scene_2_ridge"
            ELSE IF choice = 2 THEN "scene_2_lava"
            ELSE "scene_1_more_info"
      [] scene = "scene_1_more_info" ->
            IF choice = 1 THEN "scene_2_ridge" ELSE "scene_2_lava"
      [] scene = "scene_2_ridge" -> "scene_3"
      [] scene = "scene_2_lava" -> "scene_3"
      [] scene = "scene_3" ->
            IF choice = 1 THEN "final_scene_restore"
            ELSE IF choice = 2 THEN "final_scene_shatter"
            ELSE "scene_3_bargain"
      [] scene = "scene_3_negotiate" -> "final_scene_negotiate"
      [] scene \in FinalScenes -> "end"

\* Variant: the first two edges of scene_3 exchanged.
NextScene_FinalsSwapped(scene, choice) ==
    CASE scene = "intro" -> "scene_1"
      [] scene = "scene_1" ->
            IF choice = 1 THEN "scene_2_ridge"
            ELSE IF choice = 2 THEN "scene_2_lava"
            ELSE "scene_1_more_info"
      [] scene = "scene_1_more_info" ->
            IF choice = 1 THEN "scene_2_ridge" ELSE "scene_2_lava"
      [] scene = "scene_2_ridge" -> "scene_3"
      [] scene = "scene_2_lava" -> "scene_3"
      [] scene = "scene_3" ->
            IF choice = 1 THEN "final_scene_shatter"
            ELSE IF choice = 2 THEN "final_scene_restore"
            ELSE "scene_3_negotiate"
      [] scene = "scene_3_negotiate" -> "final_scene_negotiate"
      [] scene \in FinalScenes -> "end"

\* Variant: a wrong answer to the ridge's riddle sends the player back to
\* SCENE_1.
NextScene_RidgeLoops(scene, choice) ==
    CASE scene = "intro" -> "scene_1"
      [] scene = "scene_1" ->
            IF choice = 1 THEN "scene_2_ridge"
            ELSE IF choice = 2 THEN "scene_2_lava"
            ELSE "scene_1_more_info"
      [] scene = "scene_1_more_info" ->
            IF choice = 1 THEN "scene_2_ridge" ELSE "scene_2_lava"
      [] scene = "scene_2_ridge" -> IF choice = 3 THEN "scene_3" ELSE "scene_1"
      [] scene = "scene_2_lava" -> "scene_3"
      [] scene = "scene_3" ->
            IF choice = 1 THEN "final_scene_restore"
            ELSE IF choice = 2 THEN "final_scene_shatter"
            ELSE "scene_3_negotiate"
      [] scene = "scene_3_negotiate" -> "final_scene_negotiate"
      [] scene \in FinalScenes -> "end"

\* Variant: the right answer to the lava tube's riddle opens a way past SCENE_3.
NextScene_LavaShortcut(scene, choice) ==
    CASE scene = "intro" -> "scene_1"
      [] scene = "scene_1" ->
            IF choice = 1 THEN "scene_2_ridge"
            ELSE IF choice = 2 THEN "scene_2_lava"
            ELSE "scene_1_more_info"
      [] scene = "scene_1_more_info" ->
            IF choice = 1 THEN "scene_2_ridge" ELSE "scene_2_lava"
      [] scene = "scene_2_ridge" -> "scene_3"
      [] scene = "scene_2_lava" ->
            IF choice = 3 THEN "scene_3_negotiate" ELSE "scene_3"
      [] scene = "scene_3" ->
            IF choice = 1 THEN "final_scene_restore"
            ELSE IF choice = 2 THEN "final_scene_shatter"
            ELSE "scene_3_negotiate"
      [] scene = "scene_3_negotiate" -> "final_scene_negotiate"
      [] scene \in FinalScenes -> "end"

\* What each scene handler returns, given the index its decision resolved to
\* (handlers without a decision ignore it).
NextScene(scene, choice) ==
    CASE scene = "intro" -> "scene_1"
      [] scene = "scene_1" ->
            IF choice = 1 THEN "scene_2_ridge"
            ELSE IF choice = 2 THEN "scene_2_lava"
            ELSE "scene_1_more_info"
      [] scene = "scene_1_more_info" ->
            IF choice = 1 THEN "scene_2_ridge" ELSE "scene_2_lava"
      [] scene = "scene_2_ridge" -> "scene_3"
      [] scene = "scene_2_lava" -> "scene_3"
      [] scene = "scene_3" ->
            IF choice = 1 THEN "final_scene_restore"
            ELSE IF choice = 2 THEN "final_scene_shatter"
            ELSE "scene_3_negotiate"
      [] scene = "scene_3_negotiate" -> "final_scene_negotiate"
      [] scene \in FinalScenes -> "end"

\* Variant: the first two rows of the table exchanged.
DetermineEndingType_Swapped(choices) ==
    IF "scene_3" \in DOMAIN choices
    THEN IF choices["scene_3"] = 1 THEN "Sacrifice"
         ELSE IF choices["scene_3"] = 2 THEN "Restoration"
         ELSE "Harmony"
    ELSE "Unknown"

\* determine_ending_type
DetermineEndingType(choices) ==
    IF "scene_3" \in DOMAIN choices
    THEN IF choices["scene_3"] = 1 THEN "Restoration"
         ELSE IF choices["scene_3"] = 2 THEN "Sacrifice"
         ELSE "Harmony"
    ELSE "Unknown"

\* Variant: the mapping is replaced by the one new entry.
Record_Replaces(choices, scene, choice) == [s \in {scene} |-> choice]

\* choices_made[scene] = choice
Record(choices, scene, choice) ==
    [s \in DOMAIN choices \cup {scene} |-> IF s = scene THEN choice ELSE choices[s]]

\* Variant: the progress counter moves only when no choice is recorded.
UpdateGameState_ProgressInElse(scene, hasChoice, choice) ==
    /\ visited_locations' = visited_locations \cup {scene}
    /\ choices_made' = IF hasChoice THEN Record(choices_made, scene, choice)
                       ELSE choices_made
    /\ story_progress' = IF hasChoice THEN story_progress ELSE story_progress + 1

\* update_game_state(scene, choice); hasChoice is FALSE for choice=None.
UpdateGameState(scene, hasChoice, choice) ==
    /\ visited_locations' = visited_locations \cup {scene}
    /\ choices_made' = IF hasChoice THEN Record(choices_made, scene, choice)
                       ELSE choices_made
    /\ story_progress' = story_progress + 1

\* clear_screen
ClearScreen ==
    /\ summary' = NoSummary
    /\ notices' = {}

\* Variant: a constructor that keeps the recorded choices.
GameInit_Stale ==
    /\ visited_locations' = {}
    /\ choices_made' = choices_made
    /\ game_over' = FALSE
    /\ story_progress' = 0
    /\ use_llm' = api_key

\* TextAdventureGame.__init__: the fields the engine reads.
GameInit ==
    /\ visited_locations' = {}
    /\ choices_made' = EmptyChoices
    /\ game_over' = FALSE
    /\ story_progress' = 0
    /\ use_llm' = api_key

\* ---------------------------------------------------------------- actions
\* pc = "run_game"     the test of run_game's outer loop (while play_again)
\*      "loop"         the test of its inner loop (while not game_over)
\*      "press_enter"  intro_scene, blocked in input("Press Enter ...")
\*      "input_text"   get_user_choice, blocked in input("> ")
\*      "classify"     process_user_input_with_llm, awaiting the response
\*      "input_number" get_numbered_choice, blocked in input(...)
\*      "returned"     run_game has returned

\* Variant: the free-text branch is taken whatever use_llm is.
EnterGetUserChoice_AlwaysLlm ==
    /\ llm_calls' = 0
    /\ user_input' = NoInput
    /\ response' = NoOutcome
    /\ pc' = "input_text"

\* get_user_choice up to its first input(): the options are printed and the
\* branch on use_llm is taken.
EnterGetUserChoice ==
    /\ llm_calls' = 0
    /\ user_input' = NoInput
    /\ response' = NoOutcome
    /\ pc' = IF use_llm THEN "input_text" ELSE "input_number"

\* get_user_choice returns choice to its caller, which runs to its end: a
\* scene records the choice and returns the next scene to the drive loop;
\* end_game returns choice == 1 and the drive loop breaks.
ReturnChoice(choice) ==
    /\ last_choice' = [scene |-> current_scene,
                       category |-> Category(current_scene),
                       index |-> choice]
    /\ IF current_scene = "end"
       THEN /\ play_again' = (choice = 1)
            /\ pc' = "run_game"
            /\ UNCHANGED <<current_scene, session, history>>
       ELSE /\ UpdateGameState(current_scene, TRUE, choice)
            /\ current_scene' = NextScene(current_scene, choice)
            /\ pc' = "loop"
            /\ scenes_run' = Append(scenes_run, current_scene)
            /\ picks' = Append(picks, choice)
            /\ UNCHANGED <<play_again, game_over>>

\* The outer loop of run_game goes round: the state is reset by __init__ and
\* the play-through starts at INTRO.
StartPlaythrough ==
    /\ pc = "run_game"
    /\ play_again
    /\ GameInit
    /\ current_scene' = "intro"
    /\ pc' = "loop"
    /\ runs' = IF runs < MaxRuns THEN runs + 1 ELSE runs
    /\ scenes_run' = <<>>
    /\ picks' = <<>>
    /\ UNCHANGED <<play_again, api_key, user_input, response, llm_calls,
                   last_choice, summary, notices>>

\* The outer loop ends and run_game returns.
ReturnFromRunGame ==
    /\ pc = "run_game"
    /\ UNCHANGED history
    /\ ~play_again
    /\ pc' = "returned"
    /\ UNCHANGED <<play_again, current_scene, session, use_llm, api_key,
                   user_input, response, llm_calls, last_choice, summary,
                   notices, runs>>

\* The inner loop's test fails (game_over is set); the test after the loop
\* (current_scene != END and not game_over) is then false.
LoopExit ==
    /\ pc = "loop"
    /\ UNCHANGED history
    /\ game_over
    /\ pc' = "run_game"
    /\ UNCHANGED <<play_again, current_scene, session, use_llm, api_key,
                   user_input, response, llm_calls, last_choice, summary,
                   notices, runs>>

\* intro_scene up to input("Press Enter to continue...").
intro_scene ==
    /\ pc = "loop"
    /\ UNCHANGED history
    /\ ~game_over
    /\ current_scene = "intro"
    /\ ClearScreen
    /\ pc' = "press_enter"
    /\ UNCHANGED <<play_again, current_scene, session, use_llm, api_key,
                   user_input, response, llm_calls, last_choice, runs>>

\* intro_scene from the line read to its return.
intro_scene_enter ==
    /\ pc = "press_enter"
    /\ \E line \in Inputs : TRUE
    /\ UpdateGameState("intro", FALSE, 0)
    /\ current_scene' = NextScene("intro", 0)
    /\ pc' = "loop"
    /\ scenes_run' = Append(scenes_run, "intro")
    /\ UNCHANGED picks
    /\ UNCHANGED <<play_again, game_over, use_llm, api_key, user_input,
                   response, llm_calls, last_choice, summary, notices, runs>>

\* Variant: the scene is marked visited before its decision is resolved.
DecisionScene_MarksEarly(scene) ==
    /\ pc = "loop"
    /\ UNCHANGED history
    /\ ~game_over
    /\ current_scene = scene
    /\ ClearScreen
    /\ EnterGetUserChoice
    /\ visited_locations' = visited_locations \cup {scene}
    /\ UNCHANGED <<play_again, current_scene, choices_made, story_progress,
                   game_over, use_llm, api_key, last_choice, runs>>

\* A scene with a decision, up to the first input() of get_user_choice.
DecisionScene(scene) ==
    /\ pc = "loop"
    /\ UNCHANGED history
    /\ ~game_over
    /\ current_scene = scene
    /\ ClearScreen
    /\ EnterGetUserChoice
    /\ UNCHANGED <<play_again, current_scene, session, use_llm, api_key,
                   last_choice, runs>>

scene_1 == DecisionScene("scene_1")

scene_1_more_info == DecisionScene("scene_1_more_info")

scene_2_ridge == DecisionScene("scene_2_ridge")

scene_2_lava == DecisionScene("scene_2_lava")

scene_3 == DecisionScene("scene_3")

scene_3_negotiate == DecisionScene("scene_3_negotiate")

\* Variant: END is returned without game_over being set.
FinalScene_NoFlag(scene) ==
    /\ pc = "loop"
    /\ ~game_over
    /\ current_scene = scene
    /\ ClearScreen
    /\ current_scene' = NextScene(scene, 0)
    /\ pc' = "loop"
    /\ scenes_run' = Append(scenes_run, scene)
    /\ UNCHANGED picks
    /\ UNCHANGED <<play_again, session, use_llm, api_key, user_input, response,
                   llm_calls, last_choice, runs>>

\* A final scene: narration, game_over is set and END is returned.
FinalScene(scene) ==
    /\ pc = "loop"
    /\ ~game_over
    /\ current_scene = scene
    /\ ClearScreen
    /\ game_over' = TRUE
    /\ current_scene' = NextScene(scene, 0)
    /\ pc' = "loop"
    /\ scenes_run' = Append(scenes_run, scene)
    /\ UNCHANGED picks
    /\ UNCHANGED <<play_again, visited_locations, choices_made, story_progress,
                   use_llm, api_key, user_input, response, llm_calls,
                   last_choice, runs>>

final_scene_restore == FinalScene("final_scene_restore")

final_scene_shatter == FinalScene("final_scene_shatter")

final_scene_negotiate == FinalScene("final_scene_negotiate")

\* get_user_choice with use_llm: the player's line is read and the
\* classification request is sent.
get_user_choice_input ==
    /\ pc = "input_text"
    /\ UNCHANGED history
    /\ \E line \in Inputs : user_input' = line
    /\ llm_calls' = llm_calls + 1
    /\ pc' = "classify"
    /\ UNCHANGED <<play_again, current_scene, session, use_llm, api_key,
                   response, last_choice, summary, notices, runs>>

\* process_user_input_with_llm once the request has come back with outcome:
\* a number is returned to the caller, or the except clause prints its notice
\* and calls get_numbered_choice.
LlmReturns(outcome) ==
    /\ TryLlm(outcome, NumOptions(current_scene)).kind = "return"
    /\ ReturnChoice(TryLlm(outcome, NumOptions(current_scene)).val)
    /\ UNCHANGED notices

\* Variant: no except clause, the exception leaves run_game.
LlmRaises_Fatal(outcome) ==
    /\ TryLlm(outcome, NumOptions(current_scene)).kind = "raise"
    /\ pc' = "raised"
    /\ UNCHANGED <<play_again, current_scene, session, last_choice, notices,
                   history>>

\* Variant: the except clause asks for free text and classifies it again.
LlmRaises_Retries(outcome) ==
    /\ TryLlm(outcome, NumOptions(current_scene)).kind = "raise"
    /\ notices' = notices \cup {"llm_error"}
    /\ pc' = "input_text"
    /\ UNCHANGED <<play_again, current_scene, session, last_choice, history>>

LlmRaises(outcome) ==
    /\ TryLlm(outcome, NumOptions(current_scene)).kind = "raise"
    /\ notices' = notices \cup {"llm_error"}
    /\ pc' = "input_number"
    /\ UNCHANGED <<play_again, current_scene, session, last_choice, history>>

process_user_input_with_llm ==
    /\ pc = "classify"
    /\ \E outcome \in LlmOutcomes :
          /\ response' = outcome
          /\ IF TryLlm(outcome, NumOptions(current_scene)).kind = "return"
             THEN LlmReturns(outcome)
             ELSE LlmRaises(outcome)
    /\ UNCHANGED <<use_llm, api_key, user_input, llm_calls, summary, runs>>

\* get_numbered_choice: one line is read; a number in range is returned to the
\* caller, anything else goes round the loop.
get_numbered_choice ==
    /\ pc = "input_number"
    /\ \E line \in Inputs :
          /\ user_input' = line
          /\ IF TryNumber(line, NumOptions(current_scene)).kind = "return"
             THEN ReturnChoice(TryNumber(line, NumOptions(current_scene)).val)
             ELSE UNCHANGED <<pc, play_again, current_scene, session,
                              last_choice, history>>
    /\ UNCHANGED <<use_llm, api_key, response, llm_calls, summary, notices, runs>>

\* end_game up to the first input() of its replay decision: the summary is
\* printed with the ending determine_ending_type gives.
end_game ==
    /\ pc = "loop"
    /\ UNCHANGED history
    /\ ~game_over
    /\ current_scene = "end"
    /\ summary' = [shown |-> TRUE,
                   visited |-> Cardinality(visited_locations),
                   choices |-> Cardinality(DOMAIN choices_made),
                   ending |-> DetermineEndingType(choices_made)]
    /\ notices' = {}
    /\ EnterGetUserChoice
    /\ UNCHANGED <<play_again, current_scene, session, use_llm, api_key,
                   last_choice, runs>>

\* Variant: the error is printed but the outer loop is not told to stop.
unknown_scene_Continues ==
    /\ pc = "loop"
    /\ UNCHANGED history
    /\ ~game_over
    /\ current_scene \notin Dispatched
    /\ notices' = notices \cup {"unknown_scene"}
    /\ pc' = "run_game"
    /\ UNCHANGED <<play_again, current_scene, session, use_llm, api_key,
                   user_input, response, llm_calls, last_choice, summary, runs>>

\* The else branch of the dispatch: the error is printed, play_again is
\* cleared and the loop is left; the test after the loop then holds and
\* prints its own message.
unknown_scene ==
    /\ pc = "loop"
    /\ UNCHANGED history
    /\ ~game_over
    /\ current_scene \notin Dispatched
    /\ notices' = notices \cup {"unknown_scene", "ended_unexpectedly"}
    /\ play_again' = FALSE
    /\ pc' = "run_game"
    /\ UNCHANGED <<current_scene, session, use_llm, api_key, user_input,
                   response, llm_calls, last_choice, summary, runs>>

\* ---------------------------------------------------------- specifications
\* The state when main() calls run_game: the object main() constructed, and
\* play_again = True.
Init ==
    /\ pc = "run_game"
    /\ play_again = TRUE
    /\ current_scene = "intro"
    /\ visited_locations = {}
    /\ choices_made = EmptyChoices
    /\ game_over = FALSE
    /\ story_progress = 0
    /\ api_key \in BOOLEAN
    /\ use_llm = api_key
    /\ user_input = NoInput
    /\ response = NoOutcome
    /\ llm_calls = 0
    /\ last_choice = NoChoice
    /\ summary = NoSummary
    /\ notices = {}
    /\ runs = 0
    /\ scenes_run = <<>>
    /\ picks = <<>>

\* The steps run_game takes from Init.  The branches of the dispatch for END
\* and for an unknown identifier, and the exit of the outer loop, are not
\* among them: DeadBranches below states that no reachable state enables them.
Next ==
    \/ StartPlaythrough
    \/ LoopExit
    \/ intro_scene
    \/ intro_scene_enter
    \/ scene_1
    \/ scene_1_more_info
    \/ scene_2_ridge
    \/ scene_2_lava
    \/ scene_3
    \/ scene_3_negotiate
    \/ final_scene_restore
    \/ final_scene_shatter
    \/ final_scene_negotiate
    \/ get_user_choice_input
    \/ process_user_input_with_llm
    \/ get_numbered_choice

Spec == Init /\ [][Next]_vars

DeadBranches == ~ENABLED (end_game \/ unknown_scene \/ ReturnFromRunGame)

\* A cooperative player and a classifier that always answers or fails: a line
\* is eventually typed at the free-text prompt, every request eventually comes
\* back (with any outcome, an error included), and at the numeric prompt a
\* number in range is eventually typed.
ValidNumberEntered == get_numbered_choice /\ pc' # "input_number"

SpecFair ==
    /\ Spec
    /\ WF_vars(get_user_choice_input)
    /\ WF_vars(process_user_input_with_llm)
    /\ WF_vars(ValidNumberEntered)

\* In addition the thread of control runs whenever it is not blocked in
\* input(), and Enter is eventually pressed at the intro's prompt.
SpecLive ==
    /\ SpecFair
    /\ WF_vars(Next)

\* The drive loop taken as a function of what it finds: the inner loop is
\* entered with current_scene END or an identifier outside SceneType, game_over
\* false, and any record of choices.  From Init no such state is reached; these
\* are the inputs of the two branches Next leaves out.
RecordedChoices ==
    UNION {[D -> 0..MaxRecorded] : D \in SUBSET {"scene_2_lava", "scene_3"}}

InitDrive ==
    /\ pc = "loop"
    /\ play_again = TRUE
    /\ current_scene \in {"end", NotAScene}
    /\ choices_made \in RecordedChoices
    /\ visited_locations = {"intro"} \cup DOMAIN choices_made
    /\ game_over = FALSE
    /\ story_progress = Cardinality(visited_locations)
    /\ api_key \in BOOLEAN
    /\ use_llm = api_key
    /\ user_input = NoInput
    /\ response = NoOutcome
    /\ llm_calls = 0
    /\ last_choice = NoChoice
    /\ summary = NoSummary
    /\ notices = {}
    /\ runs = 1
    /\ scenes_run = <<>>
    /\ picks = <<>>

NextDrive ==
    \/ Next
    \/ end_game
    \/ unknown_scene
    \/ ReturnFromRunGame

SpecDrive == InitDrive /\ [][NextDrive]_vars

\* ------------------------------------------------------------------ claims
Resolving == pc \in {"input_text", "classify", "input_number"}

\* The summary end_game prints for the current session state.
SummaryOf(visited, choices) ==
    [shown |-> TRUE,
     visited |-> Cardinality(visited),
     choices |-> Cardinality(DOMAIN choices),
     ending |-> DetermineEndingType(choices)]

\* C1: when a play-through has executed a final scene and reached END, and
\* control is back at the outer loop of run_game (before any reset), the
\* end-of-run summary of that play-through (visited count, choices count,
\* ending kind computed from its choices_made) has been presented.
C1_SummaryAfterFinal ==
    (pc = "run_game" /\ game_over /\ current_scene = "end")
        => summary = SummaryOf(visited_locations, choices_made)

\* C2: after a play-through that reached the terminal scene, a new
\* play-through starts only if the replay decision (category PLAY_AGAIN) was
\* offered and resolved to option 1.
C2_ReplayDecides ==
    [][(pc = "run_game" /\ game_over /\ current_scene = "end" /\ pc' = "loop")
          => (last_choice.category = "play_again" /\ last_choice.index = 1)]_vars

\* C3: every play-through starts with visited_locations and choices_made
\* empty, story_progress 0, game_over false and INTRO as the scene to execute,
\* and as long as nothing has been executed in a play-through nothing is
\* recorded in it.
C3_FreshStart ==
    /\ [][(pc = "run_game" /\ pc' = "loop")
            => /\ visited_locations' = {}
               /\ choices_made' = EmptyChoices
               /\ story_progress' = 0
               /\ ~game_over'
               /\ current_scene' = "intro"]_vars
    /\ []((pc \in {"loop", "press_enter"} /\ current_scene = "intro")
            => (visited_locations = {} /\ DOMAIN choices_made = {}
                /\ story_progress = 0 /\ ~game_over))

\* A second play-through stands at its start although the first one recorded
\* a choice.
C3_SecondStart ==
    /\ runs = 2
    /\ pc = "loop"
    /\ current_scene = "intro"
    /\ last_choice.scene = "scene_3"
    /\ choices_made = EmptyChoices

\* C4: when the first line the player types at a decision is a well-formed
\* integer n in 1..N, the resolution returns n on that step and makes no
\* classification request.
C4_NumericFastPath ==
    [][(/\ pc \in {"input_text", "input_number"}
        /\ user_input = NoInput
        /\ ParseInt(user_input').ok
        /\ 1 <= ParseInt(user_input').val
        /\ ParseInt(user_input').val <= NumOptions(current_scene))
          => /\ llm_calls' = 0
             /\ ~Resolving'
             /\ last_choice'.scene = current_scene
             /\ last_choice'.index = ParseInt(user_input').val]_vars

\* C5: with a cooperative input source a choice resolution always comes to
\* an end, whatever the classifier does; it ends by returning (never by an
\* exception leaving it), and what it returns is an index in 1..N of the
\* caller's option list.
C5_ResolutionTotal ==
    /\ Resolving ~> ~Resolving
    /\ [](pc # "raised")
    /\ [](last_choice # NoChoice
            => (1 <= last_choice.index
                /\ last_choice.index <= NumOptions(last_choice.scene)))

\* A resolution has returned, after the classifier failed, the number the
\* player typed with a blank before it.
C5_ReturnedAfterRetries ==
    /\ ~Resolving
    /\ last_choice.scene = "scene_1_more_info"
    /\ last_choice.index = 2
    /\ response.kind = "error"
    /\ llm_calls = 1
    /\ user_input = <<" ", "2">>

\* Some word of text is a decimal number in 1..N.
NamesAnOption(text, N) ==
    \E i \in 1..Len(Split(text)) :
        /\ AllDecimal(Split(text)[i])
        /\ 1 <= DecimalValue(Split(text)[i])
        /\ DecimalValue(Split(text)[i]) <= N

\* C6: when the classifier answers with a content in which no word is an
\* integer in 1..N, the resolution goes to the numeric prompt and returns
\* nothing on that step.
C6_NoSilentDefault ==
    [][(/\ pc = "classify"
        /\ response'.kind = "content"
        /\ ~NamesAnOption(response'.text, NumOptions(current_scene)))
          => (pc' = "input_number" /\ last_choice' = last_choice
              /\ UNCHANGED <<session, current_scene>>)]_vars

\* C7: a classification request that fails with an error prints the notice
\* and leaves the resolution at the numeric prompt with nothing recorded; the
\* valid number then typed there is returned, recorded and followed like any
\* other resolved index.
C7_ErrorFallsBack ==
    /\ [][(pc = "classify" /\ response'.kind = "error")
            => /\ "llm_error" \in notices'
               /\ pc' = "input_number"
               /\ UNCHANGED <<session, current_scene, play_again, last_choice>>]_vars
    /\ [][(/\ pc = "input_number"
           /\ llm_calls = 1
           /\ current_scene \in DecisionScenes
           /\ ParseInt(user_input').ok
           /\ 1 <= ParseInt(user_input').val
           /\ ParseInt(user_input').val <= NumOptions(current_scene))
            => /\ pc' = "loop"
               /\ last_choice'.index = ParseInt(user_input').val
               /\ choices_made'[current_scene] = ParseInt(user_input').val
               /\ current_scene' = NextScene(current_scene, ParseInt(user_input').val)
               /\ visited_locations' = visited_locations \cup {current_scene}
               /\ story_progress' = story_progress + 1]_vars
    /\ [](pc # "raised")

\* After a failed request at SCENE_1 the player typed 2 and the play-through
\* went on to the lava tube.
C7_FallbackResolved ==
    /\ pc = "loop"
    /\ current_scene = "scene_2_lava"
    /\ response.kind = "error"
    /\ llm_calls = 1
    /\ "llm_error" \in notices
    /\ last_choice = [scene |-> "scene_1", category |-> "path", index |-> 2]
    /\ choices_made["scene_1"] = 2

\* C8: every identifier a scene can return, for every index its decision can
\* resolve to, is one the drive loop dispatches; so the current scene is always
\* a dispatched one and the unknown-scene report never appears.
C8_ClosedGraph ==
    /\ current_scene \in Dispatched
    /\ "unknown_scene" \notin notices
    /\ (pc = "loop" /\ ~game_over /\ current_scene \in DecisionScenes)
          => \A i \in 1..NumOptions(current_scene) :
                NextScene(current_scene, i) \in Dispatched

\* The default edge of SCENE_3 has been followed.
C8_DefaultEdgeTaken ==
    /\ pc = "loop"
    /\ current_scene = "scene_3_negotiate"
    /\ choices_made["scene_3"] = 3

\* C9: when the drive loop finds an identifier it has no handler for, that
\* step reports it, changes no session state and leaves the loop with
\* play_again cleared; afterwards no scene is executed, no summary is
\* produced, the terminal scene is not reached and run_game only returns.
C9_UnknownHalts ==
    /\ [][(pc = "loop" /\ ~game_over /\ current_scene \notin Dispatched)
            => /\ "unknown_scene" \in notices'
               /\ pc' = "run_game"
               /\ ~play_again'
               /\ UNCHANGED <<session, current_scene, summary, runs>>]_vars
    /\ [][("unknown_scene" \in notices)
            => (pc' = "returned"
                /\ UNCHANGED <<session, current_scene, summary, runs>>)]_vars
    /\ [](("unknown_scene" \in notices)
            => (pc \in {"run_game", "returned"} /\ ~summary.shown
                /\ current_scene # "end" /\ ~game_over))

\* run_game has returned after the report.
C9_HaltedOnUnknown ==
    /\ pc = "returned"
    /\ "unknown_scene" \in notices
    /\ current_scene = NotAScene

\* C10: the ending end_game shows is given by the entry of choices_made for
\* SCENE_3 alone: 1 gives Restoration, 2 Sacrifice, any other recorded value
\* Harmony, no entry Unknown; computing it changes no session state.
C10_EndingTable ==
    [][(pc = "loop" /\ ~game_over /\ current_scene = "end")
          => /\ summary'.shown
             /\ ("scene_3" \notin DOMAIN choices_made)
                   => summary'.ending = "Unknown"
             /\ ("scene_3" \in DOMAIN choices_made)
                   => /\ (choices_made["scene_3"] = 1)
                           => summary'.ending = "Restoration"
                      /\ (choices_made["scene_3"] = 2)
                           => summary'.ending = "Sacrifice"
                      /\ (choices_made["scene_3"] \notin {1, 2})
                           => summary'.ending = "Harmony"
             /\ UNCHANGED session]_vars

\* The ending was computed from a recorded value other than 1, 2 and 3, next
\* to an entry for another scene.
C10_OtherValueIsHarmony ==
    /\ summary.shown
    /\ summary.ending = "Harmony"
    /\ current_scene = "end"
    /\ DOMAIN choices_made = {"scene_2_lava", "scene_3"}
    /\ choices_made["scene_3"] = 4
    /\ choices_made["scene_2_lava"] = 1

\* The run of scene handlers a sequence of resolved indices fixes: from scene
\* on, a scene with a decision takes the next index and a scene without one
\* takes none; the run stops at END or at a decision with no index left.
RECURSIVE WalkFrom(_, _)
WalkFrom(scene, ps) ==
    IF scene = "end" THEN <<>>
    ELSE IF scene \in DecisionScenes
         THEN IF ps = <<>> THEN <<>>
              ELSE <<scene>> \o WalkFrom(NextScene(scene, Head(ps)), Tail(ps))
         ELSE <<scene>> \o WalkFrom(NextScene(scene, 0), ps)

IsDecision(scene) == scene \in DecisionScenes

\* The choices a run records: its k-th scene with a decision gets the k-th index.
ChoicesAlong(run, ps) ==
    LET deciding == SelectSeq(run, IsDecision) IN
    [s \in {deciding[k] : k \in 1..Len(deciding)} |->
        ps[CHOOSE k \in 1..Len(deciding) : deciding[k] = s]]

\* The scenes a run marks visited: all but the final scenes.
VisitedAlong(run) ==
    {run[k] : k \in 1..Len(run)} \ FinalScenes

\* C11: whenever the drive loop stands at a decision or at END, the scenes
\* executed in this play-through, choices_made and visited_locations (and so
\* the ending classification) are the ones the sequence of resolved indices
\* alone fixes, whatever use_llm is and whatever earlier play-throughs did.
C11_PathFixedByPicks ==
    (current_scene \in DecisionScenes \cup {"end"})
        => /\ scenes_run = WalkFrom("intro", picks)
           /\ choices_made = ChoicesAlong(WalkFrom("intro", picks), picks)
           /\ visited_locations = VisitedAlong(WalkFrom("intro", picks))
           /\ story_progress = Cardinality(VisitedAlong(WalkFrom("intro", picks)))

\* A second play-through, with the classifier enabled, has reached END by the
\* longest route.
C11_SecondRunComplete ==
    /\ runs = 2
    /\ use_llm
    /\ game_over
    /\ current_scene = "end"
    /\ picks = <<3, 1, 2, 3, 1>>
    /\ scenes_run = <<"intro", "scene_1", "scene_1_more_info", "scene_2_ridge",
                      "scene_3", "scene_3_negotiate", "final_scene_negotiate">>

ChoicesA == ("scene_1" :> 2) @@ ("scene_2_lava" :> 3) @@ ("scene_3" :> 1)

\* C12 (scenario A): a play-through that resolved 2 at SCENE_1, 3 at
\* SCENE_2_LAVA and 1 at SCENE_3 has executed INTRO, SCENE_1, SCENE_2_LAVA,
\* SCENE_3 and has FINAL_RESTORE next; once that has run it stands at END, and
\* its choices classify as Restoration.
C12_ScenarioA ==
    (choices_made = ChoicesA)
        => /\ DetermineEndingType(choices_made) = "Restoration"
           /\ pc = "loop" \/ (pc = "run_game" /\ game_over)
           /\ IF game_over
              THEN /\ current_scene = "end"
                   /\ scenes_run = <<"intro", "scene_1", "scene_2_lava",
                                     "scene_3", "final_scene_restore">>
              ELSE /\ current_scene = "final_scene_restore"
                   /\ scenes_run = <<"intro", "scene_1", "scene_2_lava", "scene_3">>

C12_ScenarioAEnded ==
    /\ choices_made = ChoicesA
    /\ picks = <<2, 3, 1>>
    /\ game_over
    /\ current_scene = "end"
    /\ scenes_run[Len(scenes_run)] = "final_scene_restore"

ChoicesB == ("scene_1" :> 1) @@ ("scene_2_ridge" :> 1) @@ ("scene_3" :> 2)

\* C13 (scenario B): a play-through that resolved 1 at SCENE_1, 1 at
\* SCENE_2_RIDGE and 2 at SCENE_3 has executed INTRO, SCENE_1, SCENE_2_RIDGE,
\* SCENE_3 and has FINAL_SHATTER next; once that has run it stands at END, and
\* its choices classify as Sacrifice.
C13_ScenarioB ==
    (choices_made = ChoicesB)
        => /\ DetermineEndingType(choices_made) = "Sacrifice"
           /\ pc = "loop" \/ (pc = "run_game" /\ game_over)
           /\ IF game_over
              THEN /\ current_scene = "end"
                   /\ scenes_run = <<"intro", "scene_1", "scene_2_ridge",
                                     "scene_3", "final_scene_shatter">>
              ELSE /\ current_scene = "final_scene_shatter"
                   /\ scenes_run = <<"intro", "scene_1", "scene_2_ridge", "scene_3">>

C13_ScenarioBEnded ==
    /\ choices_made = ChoicesB
    /\ picks = <<1, 1, 2>>
    /\ game_over
    /\ current_scene = "end"
    /\ scenes_run[Len(scenes_run)] = "final_scene_shatter"

IsScenarioC(choices) ==
    /\ DOMAIN choices = {"scene_1", "scene_1_more_info", "scene_2_lava",
                         "scene_3", "scene_3_negotiate"}
    /\ choices["scene_1"] = 3
    /\ choices["scene_1_more_info"] = 2
    /\ choices["scene_3"] = 3
    /\ choices["scene_3_negotiate"] \in 1..3

RunC ==
    <<"intro", "scene_1", "scene_1_more_info", "scene_2_lava", "scene_3",
      "scene_3_negotiate", "final_scene_negotiate", "end">>

\* ps is the beginning of a sequence of indices 3, 2, any, 3, any.
BeginsScenarioC(ps) ==
    /\ Len(ps) <= 5
    /\ Len(ps) >= 1 => ps[1] = 3
    /\ Len(ps) >= 2 => ps[2] = 2
    /\ Len(ps) >= 4 => ps[4] = 3

\* C14 (scenario C): a play-through that resolved 3 at SCENE_1, 2 at
\* SCENE_1_MORE_INFO, anything at SCENE_2_LAVA, 3 at SCENE_3 and any of 1..3
\* at SCENE_3_NEGOTIATE executes, index by index, INTRO, SCENE_1,
\* SCENE_1_MORE_INFO, SCENE_2_LAVA, SCENE_3, SCENE_3_NEGOTIATE and
\* FINAL_NEGOTIATE and then stands at END; with all five recorded its choices
\* classify as Harmony.
C14_ScenarioC ==
    (BeginsScenarioC(picks) /\ scenes_run # <<>>)
        => /\ scenes_run = SubSeq(RunC, 1, Len(scenes_run))
           /\ current_scene = RunC[Len(scenes_run) + 1]
           /\ Len(scenes_run) \in {Len(picks) + 1, Len(picks) + 2}
           /\ Len(picks) = 5
                 => /\ IsScenarioC(choices_made)
                    /\ DetermineEndingType(choices_made) = "Harmony"
                    /\ game_over <=> current_scene = "end"
                    /\ game_over <=> Len(scenes_run) = 7

C14_ScenarioCEnded ==
    /\ IsScenarioC(choices_made)
    /\ BeginsScenarioC(picks)
    /\ choices_made["scene_2_lava"] = 1
    /\ choices_made["scene_3_negotiate"] = 2
    /\ game_over
    /\ current_scene = "end"
    /\ scenes_run[Len(scenes_run)] = "final_scene_negotiate"

\* C15 (scenario D): with the classifier disabled no classification request
\* is made or answered, every index returned is the number the player typed at
\* the numeric prompt, and the scenes executed, choices_made and
\* visited_locations are the ones the resolved indices fix, by the same
\* function as with the classifier enabled.
C15_DisabledIsNumericOnly ==
    /\ ~use_llm
          => /\ llm_calls = 0
             /\ response = NoOutcome
             /\ pc \notin {"input_text", "classify"}
             /\ "llm_error" \notin notices
             /\ (~Resolving /\ last_choice # NoChoice)
                   => (ParseInt(user_input).ok
                       /\ last_choice.index = ParseInt(user_input).val)
    /\ \A enabled \in BOOLEAN :
          (use_llm = enabled /\ current_scene \in DecisionScenes \cup {"end"})
              => /\ scenes_run = WalkFrom("intro", picks)
                 /\ choices_made = ChoicesAlong(scenes_run, picks)
                 /\ DetermineEndingType(choices_made)
                       = DetermineEndingType(ChoicesAlong(WalkFrom("intro", picks), picks))

\* A play-through without the classifier has reached END over the ridge and
\* the negotiation.
C15_DisabledRunComplete ==
    /\ ~use_llm
    /\ game_over
    /\ current_scene = "end"
    /\ picks = <<1, 3, 3, 2>>
    /\ user_input = <<"2">>

\* C16: from the step on which a scene begins and for as long as it is
\* suspended (at the Enter prompt, at the free-text prompt, awaiting the
\* classifier, or going round the numeric prompt) visited_locations,
\* choices_made, story_progress and game_over keep the values they had when
\* the scene began.
C16_NoWriteWhileSuspended ==
    [][(\/ (pc = "loop" /\ (Resolving' \/ pc' = "press_enter"))
        \/ (Resolving /\ Resolving'))
          => UNCHANGED session]_vars

\* SCENE_3 is going round the numeric prompt after a failed request, with
\* nothing of it recorded.
C16_SuspendedInReprompt ==
    /\ pc = "input_number"
    /\ llm_calls = 1
    /\ user_input = <<"4">>
    /\ current_scene = "scene_3"
    /\ "scene_3" \notin visited_locations
    /\ "scene_3" \notin DOMAIN choices_made
    /\ story_progress = 3

\* C17: when a scene with an option set completes with index i, exactly the
\* entry choices_made[scene] = i is written, the scene is added to
\* visited_locations and story_progress grows by exactly one; within a
\* play-through story_progress never decreases; INTRO and the final scenes
\* record no choice.
C17_SceneCompletionRecords ==
    /\ [][(Resolving /\ ~Resolving' /\ current_scene \in DecisionScenes)
            => /\ last_choice'.scene = current_scene
               /\ DOMAIN choices_made' = DOMAIN choices_made \cup {current_scene}
               /\ choices_made'[current_scene] = last_choice'.index
               /\ \A s \in DOMAIN choices_made \ {current_scene} :
                     choices_made'[s] = choices_made[s]
               /\ visited_locations' = visited_locations \cup {current_scene}
               /\ story_progress' = story_progress + 1]_vars
    /\ [][(pc # "run_game") => (story_progress' >= story_progress)]_vars
    /\ [][(\/ pc = "press_enter"
           \/ (pc = "loop" /\ current_scene \in FinalScenes \cup {"intro"}))
            => choices_made' = choices_made]_vars

\* SCENE_2_LAVA has completed with index 3.
C17_LavaRecorded ==
    /\ pc = "loop"
    /\ current_scene = "scene_3"
    /\ last_choice = [scene |-> "scene_2_lava", category |-> "answer", index |-> 3]
    /\ choices_made["scene_2_lava"] = 3
    /\ "scene_2_lava" \in visited_locations
    /\ story_progress = 3

\* C18: in every state of the drive loop game_over is true exactly when the
\* current scene is END, and game_over becomes true only on the step on which
\* a final scene hands over to END.
C18_GameOverIffEnd ==
    /\ [](game_over <=> (current_scene = "end"))
    /\ [][(~game_over /\ game_over')
            => (current_scene \in FinalScenes /\ current_scene' = "end")]_vars
    /\ [][(current_scene \in FinalScenes /\ current_scene' # current_scene)
            => (game_over' /\ current_scene' = "end")]_vars

\* The drive loop stands at END with game_over set.
C18_AtEndGameOver ==
    /\ pc = "loop"
    /\ current_scene = "end"
    /\ game_over
    /\ scenes_run[Len(scenes_run)] = "final_scene_shatter"

\* C19: at the numeric prompt a line that is no integer, or an integer
\* outside 1..N, returns nothing and raises nothing: the prompt is posed
\* again with the session state, the current scene and the last returned
\* choice unchanged; a line that is an integer in 1..N returns exactly it.
C19_NumericPromptRejects ==
    /\ [][(pc = "input_number")
            => IF /\ ParseInt(user_input').ok
                  /\ 1 <= ParseInt(user_input').val
                  /\ ParseInt(user_input').val <= NumOptions(current_scene)
               THEN /\ ~Resolving'
                    /\ last_choice'.scene = current_scene
                    /\ last_choice'.index = ParseInt(user_input').val
               ELSE /\ pc' = "input_number"
                    /\ UNCHANGED <<session, current_scene, play_again,
                                   last_choice, history>>]_vars
    /\ [](pc # "raised")

\* At SCENE_1_MORE_INFO (two options) the player typed 3 and is asked again.
C19_OutOfRangeAskedAgain ==
    /\ pc = "input_number"
    /\ ~use_llm
    /\ current_scene = "scene_1_more_info"
    /\ user_input = <<"3">>
    /\ last_choice.scene = "scene_1"
    /\ "scene_1_more_info" \notin DOMAIN choices_made

\* C20: a choice resolution makes at most one classification request (none
\* before the free-text line is read, none after a failure), and no step
\* inside it changes visited_locations, choices_made, story_progress or
\* game_over.
C20_OneRequestNoWrites ==
    /\ [](llm_calls <= 1)
    /\ [](("llm_error" \in notices /\ Resolving) => pc = "input_number")
    /\ [][(pc = "loop" /\ Resolving') => llm_calls' = 0]_vars
    /\ [][(Resolving /\ llm_calls' # llm_calls)
            => (pc = "input_text" /\ llm_calls = 0 /\ pc' = "classify")]_vars
    /\ [][(Resolving /\ Resolving') => UNCHANGED <<session, history>>]_vars

\* After a response without content the resolution is at the numeric prompt,
\* one request made.
C20_FallbackAfterOneRequest ==
    /\ pc = "input_number"
    /\ response.kind = "none"
    /\ llm_calls = 1
    /\ user_input = <<"0">>
    /\ current_scene = "scene_1"
    /\ visited_locations = {"intro"}

\* The per-scene transition table, written out edge by edge: the scene, the
\* index (0 stands for "any other index"), the successor.
TransitionTable ==
    {<<"scene_1", 1, "scene_2_ridge">>,
     <<"scene_1", 2, "scene_2_lava">>,
     <<"scene_1", 0, "scene_1_more_info">>,
     <<"scene_1_more_info", 1, "scene_2_ridge">>,
     <<"scene_1_more_info", 0, "scene_2_lava">>,
     <<"scene_3", 1, "final_scene_restore">>,
     <<"scene_3", 2, "final_scene_shatter">>,
     <<"scene_3", 0, "scene_3_negotiate">>}

FixedSuccessors ==
    {<<"intro", "scene_1">>,
     <<"scene_2_ridge", "scene_3">>,
     <<"scene_2_lava", "scene_3">>,
     <<"scene_3_negotiate", "final_scene_negotiate">>,
     <<"final_scene_restore", "end">>,
     <<"final_scene_shatter", "end">>,
     <<"final_scene_negotiate", "end">>}

\* The successor the table gives scene for index i.
TableSuccessor(scene, i) ==
    IF \E e \in FixedSuccessors : e[1] = scene
    THEN (CHOOSE e \in FixedSuccessors : e[1] = scene)[2]
    ELSE IF \E e \in TransitionTable : e[1] = scene /\ e[2] = i
         THEN (CHOOSE e \in TransitionTable : e[1] = scene /\ e[2] = i)[3]
         ELSE (CHOOSE e \in TransitionTable : e[1] = scene /\ e[2] = 0)[3]

\* C21: every step on which a scene handler returns moves the drive loop to
\* the successor the transition table gives for the executed scene and the
\* index its decision resolved to; and on every index, in 1..N or not, each
\* handler returns what the table says (SCENE_1: 1 ridge, 2 lava, other more
\* info; SCENE_1_MORE_INFO: 1 ridge, other lava; SCENE_3: 1 restore, 2
\* shatter, other negotiate; the remaining scenes their one successor).
C21_TransitionTable ==
    /\ [][(scenes_run' # scenes_run /\ scenes_run' # <<>>)
            => /\ scenes_run' = Append(scenes_run, current_scene)
               /\ current_scene' =
                     TableSuccessor(current_scene,
                                    IF current_scene \in DecisionScenes
                                    THEN picks'[Len(picks')] ELSE 0)]_vars
    /\ [](\A scene \in SceneType \ {"end"} : \A i \in 0..(MaxRecorded + 1) :
             NextScene(scene, i) = TableSuccessor(scene, i))

\* SCENE_1_MORE_INFO has returned the lava tube on its second option, after
\* SCENE_1 took its default edge.
C21_MoreInfoToLava ==
    /\ pc = "loop"
    /\ current_scene = "scene_2_lava"
    /\ scenes_run = <<"intro", "scene_1", "scene_1_more_info">>
    /\ picks = <<3, 2>>

\* The place among words of the first word that is a decimal number in 1..N
\* (0 when there is none).
FirstOption(words, N) ==
    LET hits == {k \in 1..Len(words) :
                    /\ AllDecimal(words[k])
                    /\ DecimalValue(words[k]) \in 1..N}
    IN  IF hits = {} THEN 0 ELSE CHOOSE k \in hits : \A j \in hits : k <= j

\* The place among words of the first word that isdigit() accepts and that
\* int() cannot read (0 when there is none).
FirstUnreadable(words) ==
    LET hits == {k \in 1..Len(words) : IsDigit(words[k]) /\ ~AllDecimal(words[k])}
    IN  IF hits = {} THEN 0 ELSE CHOOSE k \in hits : \A j \in hits : k <= j

RankOf(scene) ==
    CASE scene = "intro"                          -> 1
      [] scene = "scene_1"                        -> 2
      [] scene = "scene_1_more_info"              -> 3
      [] scene \in {"scene_2_ridge", "scene_2_lava"} -> 4
      [] scene = "scene_3"                        -> 5
      [] scene = "scene_3_negotiate"              -> 6
      [] scene \in FinalScenes                    -> 7
      [] OTHER                                    -> 0

\* C24: the scenes executed in a play-through come in strictly increasing
\* order of INTRO, SCENE_1, SCENE_1_MORE_INFO, a SCENE_2_*, SCENE_3,
\* SCENE_3_NEGOTIATE, a FINAL_*: none is executed twice and there are at most
\* 7; a step that writes choices_made adds a key that was not there and keeps
\* the other entries; and, every choice resolution returning, a play-through
\* that has begun reaches the end of a final scene with at most 7 scenes
\* executed.
C24_AcyclicBounded ==
    /\ [](\A j, k \in 1..Len(scenes_run) :
             j < k => (/\ RankOf(scenes_run[j]) >= 1
                       /\ RankOf(scenes_run[j]) < RankOf(scenes_run[k])))
    /\ [](Len(scenes_run) <= 7)
    /\ [][(choices_made' # choices_made /\ pc # "run_game")
            => /\ current_scene \notin DOMAIN choices_made
               /\ DOMAIN choices_made' = DOMAIN choices_made \cup {current_scene}
               /\ \A s \in DOMAIN choices_made :
                     choices_made'[s] = choices_made[s]]_vars
    /\ (pc = "loop" /\ ~game_over /\ scenes_run = <<>>)
          ~> (/\ game_over
              /\ scenes_run # <<>>
              /\ scenes_run[Len(scenes_run)] \in FinalScenes
              /\ Len(scenes_run) <= 7)

\* The longest play-through has ended: seven scenes, five recorded choices.
C24_SevenScenes ==
    /\ game_over
    /\ Len(scenes_run) = 7
    /\ scenes_run[4] = "scene_2_ridge"
    /\ scenes_run[7] = "final_scene_negotiate"
    /\ Cardinality(DOMAIN choices_made) = 5

\* scene is among the scenes executed in this play-through.
Executed(scene) == \E k \in 1..Len(scenes_run) : scenes_run[k] = scene

\* C25: once a play-through stands at a final scene, or has executed one,
\* choices_made has an entry for SCENE_3 with one of its three indices, so the
\* ending determine_ending_type gives is not Unknown; at any point of a
\* play-through that function gives Unknown exactly when SCENE_3 has not
\* completed.
C25_EndingKnownAtFinal ==
    /\ (current_scene \in FinalScenes \cup {"end"}
            \/ \E f \in FinalScenes : Executed(f))
          => /\ "scene_3" \in DOMAIN choices_made
             /\ choices_made["scene_3"] \in 1..3
             /\ DetermineEndingType(choices_made) # "Unknown"
    /\ (DetermineEndingType(choices_made) = "Unknown") <=> ~Executed("scene_3")

\* A play-through has ended through the negotiation, which recorded its own
\* choice after SCENE_3's.
C25_EndedWithScene3Recorded ==
    /\ game_over
    /\ Executed("final_scene_negotiate")
    /\ choices_made["scene_3"] = 3
    /\ choices_made["scene_3_negotiate"] = 1
    /\ DetermineEndingType(choices_made) = "Harmony"

\* The ending each final scene narrates.
EndingOf(final) ==
    CASE final = "final_scene_restore"   -> "Restoration"
      [] final = "final_scene_shatter"   -> "Sacrifice"
      [] final = "final_scene_negotiate" -> "Harmony"

\* C26: in a play-through that has executed its final scene, each final scene
\* was executed exactly if determine_ending_type gives its ending
\* (FINAL_RESTORE Restoration, FINAL_SHATTER Sacrifice, FINAL_NEGOTIATE
\* Harmony), and FINAL_NEGOTIATE was executed right after SCENE_3_NEGOTIATE; a
\* play-through standing at a final scene about to run has that scene's ending
\* already.
C26_EndingAgreesWithFinal ==
    /\ game_over
          => /\ \A f \in FinalScenes :
                   Executed(f) <=> (DetermineEndingType(choices_made) = EndingOf(f))
             /\ \E f \in FinalScenes : scenes_run[Len(scenes_run)] = f
             /\ Executed("final_scene_negotiate")
                   <=> (Len(scenes_run) >= 2
                        /\ scenes_run[Len(scenes_run) - 1] = "scene_3_negotiate")
    /\ (current_scene \in FinalScenes)
          => DetermineEndingType(choices_made) = EndingOf(current_scene)

\* FINAL_SHATTER has been executed in a play-through through the lava tube.
C26_ShatterIsSacrifice ==
    /\ game_over
    /\ picks = <<2, 1, 2>>
    /\ Executed("final_scene_shatter")
    /\ DetermineEndingType(choices_made) = "Sacrifice"

\* The scenes whose index the claim says is recorded and not followed.
Unfollowed == {"scene_2_ridge", "scene_2_lava", "scene_3_negotiate"}

\* The sequences of indices that differ from the ones resolved so far at most
\* at the riddles and at the negotiation (any valid index there).
Variants ==
    LET deciding == SelectSeq(scenes_run, IsDecision) IN
    {qs \in [1..Len(picks) -> 1..3] :
        \A k \in 1..Len(picks) :
            IF deciding[k] \in Unfollowed
            THEN qs[k] \in 1..NumOptions(deciding[k])
            ELSE qs[k] = picks[k]}

\* C27: whenever the drive loop stands at a decision or at END, a play-through
\* whose resolved indices differ from this one's only at SCENE_2_RIDGE,
\* SCENE_2_LAVA and SCENE_3_NEGOTIATE executes the same scenes, records the
\* same keys, the same values at every other scene and its own values at
\* those three, and gets the same ending from determine_ending_type.
C27_RiddlesNotFollowed ==
    (current_scene \in DecisionScenes \cup {"end"})
        => \A qs \in Variants :
              LET other == ChoicesAlong(WalkFrom("intro", qs), qs) IN
              /\ WalkFrom("intro", qs) = scenes_run
              /\ DOMAIN other = DOMAIN choices_made
              /\ \A s \in DOMAIN other :
                    other[s] = IF s \in Unfollowed
                               THEN qs[CHOOSE k \in 1..Len(qs) :
                                          SelectSeq(scenes_run, IsDecision)[k] = s]
                               ELSE choices_made[s]
              /\ DetermineEndingType(other) = DetermineEndingType(choices_made)

\* A play-through has ended with the lava riddle answered right and the third
\* offer made in the negotiation; eight others differ from it only there.
C27_EndedWithRiddleAndOffer ==
    /\ game_over
    /\ current_scene = "end"
    /\ picks = <<2, 3, 3, 3>>
    /\ choices_made["scene_2_lava"] = 3
    /\ choices_made["scene_3_negotiate"] = 3
    /\ Cardinality(Variants) = 9

\* C28: in every state every key of choices_made is a visited location, every
\* recorded index is one of its scene's options, visited_locations is the
\* keys of choices_made together with INTRO once INTRO has completed (no
\* final scene and not END), and story_progress is the number of visited
\* locations; so with END reached there is one visited location more than
\* recorded choices, and between 4 and 6 of them.
C28_SessionConsistent ==
    /\ DOMAIN choices_made \subseteq visited_locations
    /\ \A s \in DOMAIN choices_made :
          s \in DecisionScenes /\ choices_made[s] \in 1..NumOptions(s)
    /\ visited_locations =
          DOMAIN choices_made \cup (IF Executed("intro") THEN {"intro"} ELSE {})
    /\ visited_locations \cap (FinalScenes \cup {"end"}) = {}
    /\ story_progress = Cardinality(visited_locations)
    /\ (current_scene = "end")
          => /\ Cardinality(visited_locations)
                   = Cardinality(DOMAIN choices_made) + 1
             /\ Cardinality(visited_locations) \in 4..6

\* END has been reached by the shortest route: four visited locations, three
\* recorded choices.
C28_ShortestAtEnd ==
    /\ current_scene = "end"
    /\ game_over
    /\ visited_locations = {"intro", "scene_1", "scene_2_ridge", "scene_3"}
    /\ Cardinality(DOMAIN choices_made) = 3
    /\ story_progress = 4

====
